---- MODULE Spec2Model ----
(***************************************************************************)
(* Model of infrabot/utils/file_cache.py: the structural fingerprint       *)
(* recursive_hash, the cache-key derivation of file_cache's wrapper and    *)
(* the lookup / compute / store protocol of one wrapped call, run by       *)
(* several callers against one cache directory.                            *)
(*                                                                         *)
(*   Spec      two calls through wrappers of one function                  *)
(*   SpecRace  three concurrent calls with one cache file                  *)
(*   SpecHash  one evaluation of recursive_hash, activation by activation  *)
(*   SpecFp    recursive_hash applied to pairs of values                   *)
(*   SpecKey   the key derivation applied to pairs of calls                *)
(***************************************************************************)
EXTENDS Integers, Sequences, FiniteSets, TLC

(***************************************************************************)
(* Text.  A Python str is a sequence of tokens.  A token is a pair: a      *)
(* piece of literal text <<c, <<>>>>, or the 32 hexadecimal characters of  *)
(* an MD5 digest <<"#", s>>, which stand for the text s that was digested: *)
(* MD5 is taken to be injective, and no literal text is "#".               *)
(***************************************************************************)
Chr(c) == <<c, <<>>>>

Text(c) == <<Chr(c)>>

\* hashlib.md5(s.encode()).hexdigest()
md5(s) == << <<"#", s>> >>

RECURSIVE Join(_)
Join(parts) == IF parts = <<>> THEN <<>> ELSE Head(parts) \o Join(Tail(parts))

MAX_DEPTH == 6

(***************************************************************************)
(* Values.  Every value is a record of one shape: kind is the Python type  *)
(* ("int", "str", "bool", "list", "dict", "obj", or "none" for a value     *)
(* that is none of these and has no __dict__), text is str(value) of a     *)
(* scalar, cls the class name of an object, items the elements of a list   *)
(* (under the key NoneV) or the (key, value) entries of a dict or of an     *)
(* object's __dict__, in iteration order.                                  *)
(***************************************************************************)
Scalar(kind, text) == [kind |-> kind, text |-> text, cls |-> "", items |-> <<>>]

IntV(t) == Scalar("int", Text(t))

StrV(t) == Scalar("str", Text(t))

NoneV == Scalar("none", <<>>)

Entry(key, val) == [k |-> key, v |-> val]

ListV(vs) ==
    [kind |-> "list", text |-> <<>>, cls |-> "",
     items |-> [i \in 1..Len(vs) |-> Entry(NoneV, vs[i])]]

DictV(es) == [kind |-> "dict", text |-> <<>>, cls |-> "", items |-> es]

ObjV(cls, es) == [kind |-> "obj", text |-> <<>>, cls |-> cls, items |-> es]

ScalarKinds == {"int", "float", "str", "bool", "bytes"}

\* value.__dict__ of an object
ObjDict(value) == DictV(value.items)

\* key in ignore_params: ignore_params holds parameter names (str)
InIgnore(key, ignore_params) ==
    /\ key.kind = "str"
    /\ \E n \in ignore_params : key.text = Text(n)

\* recursive_hash without the exclusion test of its dict branch
RECURSIVE recursive_hash_unfiltered(_, _, _)
recursive_hash_unfiltered(value, depth, ignore_params) ==
    IF depth > MAX_DEPTH THEN md5(Text("max_depth_reached"))
    ELSE IF value.kind \in ScalarKinds THEN md5(value.text)
    ELSE IF value.kind = "list" THEN
        md5(Join([i \in 1..Len(value.items) |->
                    recursive_hash_unfiltered(value.items[i].v, depth + 1,
                                              ignore_params)]))
    ELSE IF value.kind = "dict" THEN
        md5(Join([i \in 1..Len(value.items) |->
                    recursive_hash_unfiltered(value.items[i].k, depth + 1,
                                              ignore_params)
                    \o recursive_hash_unfiltered(value.items[i].v, depth + 1,
                                                 ignore_params)]))
    ELSE IF value.kind = "obj" /\ value.cls \notin ignore_params THEN
        recursive_hash_unfiltered(ObjDict(value), depth + 1, ignore_params)
    ELSE md5(Text("unknown"))

\* recursive_hash with the type test of scalars ahead of the depth test
RECURSIVE recursive_hash_scalars_first(_, _, _)
recursive_hash_scalars_first(value, depth, ignore_params) ==
    IF value.kind \in ScalarKinds THEN md5(value.text)
    ELSE IF depth > MAX_DEPTH THEN md5(Text("max_depth_reached"))
    ELSE IF value.kind = "list" THEN
        md5(Join([i \in 1..Len(value.items) |->
                    recursive_hash_scalars_first(value.items[i].v, depth + 1,
                                                 ignore_params)]))
    ELSE IF value.kind = "dict" THEN
        md5(Join([i \in 1..Len(value.items) |->
                    IF InIgnore(value.items[i].k, ignore_params) THEN <<>>
                    ELSE recursive_hash_scalars_first(value.items[i].k, depth + 1,
                                                      ignore_params)
                         \o recursive_hash_scalars_first(value.items[i].v, depth + 1,
                                                         ignore_params)]))
    ELSE IF value.kind = "obj" /\ value.cls \notin ignore_params THEN
        recursive_hash_scalars_first(ObjDict(value), depth + 1, ignore_params)
    ELSE md5(Text("unknown"))

\* recursive_hash with an object's __dict__ hashed at the object's own depth
RECURSIVE recursive_hash_obj_flat(_, _, _)
recursive_hash_obj_flat(value, depth, ignore_params) ==
    IF depth > MAX_DEPTH THEN md5(Text("max_depth_reached"))
    ELSE IF value.kind \in ScalarKinds THEN md5(value.text)
    ELSE IF value.kind = "list" THEN
        md5(Join([i \in 1..Len(value.items) |->
                    recursive_hash_obj_flat(value.items[i].v, depth + 1,
                                            ignore_params)]))
    ELSE IF value.kind = "dict" THEN
        md5(Join([i \in 1..Len(value.items) |->
                    IF InIgnore(value.items[i].k, ignore_params) THEN <<>>
                    ELSE recursive_hash_obj_flat(value.items[i].k, depth + 1,
                                                 ignore_params)
                         \o recursive_hash_obj_flat(value.items[i].v, depth + 1,
                                                    ignore_params)]))
    ELSE IF value.kind = "obj" /\ value.cls \notin ignore_params THEN
        recursive_hash_obj_flat(ObjDict(value), depth, ignore_params)
    ELSE md5(Text("unknown"))

RECURSIVE recursive_hash(_, _, _)
recursive_hash(value, depth, ignore_params) ==
    IF depth > MAX_DEPTH THEN md5(Text("max_depth_reached"))
    ELSE IF value.kind \in ScalarKinds THEN md5(value.text)
    ELSE IF value.kind = "list" THEN
        md5(Join([i \in 1..Len(value.items) |->
                    recursive_hash(value.items[i].v, depth + 1, ignore_params)]))
    ELSE IF value.kind = "dict" THEN
        md5(Join([i \in 1..Len(value.items) |->
                    IF InIgnore(value.items[i].k, ignore_params) THEN <<>>
                    ELSE recursive_hash(value.items[i].k, depth + 1, ignore_params)
                         \o recursive_hash(value.items[i].v, depth + 1, ignore_params)]))
    ELSE IF value.kind = "obj" /\ value.cls \notin ignore_params THEN
        recursive_hash(ObjDict(value), depth + 1, ignore_params)
    ELSE md5(Text("unknown"))

hash_code(code) == md5(code)

(***************************************************************************)
(* Functions and wrappers.  A function is its module, its name and its     *)
(* chain of code layers: layers[1] is the callable handed to the           *)
(* decorator, layers[i+1] is layers[i].__wrapped__, the last layer is the  *)
(* original def.  A layer has its declared positional parameter names      *)
(* (co_varnames[:co_argcount]) and the text of its source.                 *)
(***************************************************************************)
Layer(params, src) == [params |-> params, src |-> src]

\* getattr(func, "__wrapped__", None) or func
WrappedOrSelf(func) ==
    IF Len(func.layers) > 1 THEN func.layers[2] ELSE func.layers[1]

\* inspect.getsource(func): the source of the function func unwraps to
getsource(func) == Text(func.layers[Len(func.layers)].src)

\* a signature taken from the function's name instead of its source
func_name_hash(func) == hash_code(Text(func.name))

func_source_code_hash(func) == hash_code(getsource(func))

Min(a, b) == IF a < b THEN a ELSE b

\* dict(zip(args_names, args))
args_dict_of(func, args) ==
    LET args_names == WrappedOrSelf(func).params
    IN  [i \in 1..Min(Len(args_names), Len(args)) |->
            Entry(StrV(args_names[i]), args[i])]

\* for param in ignore_params: d.pop(param, None)
PopIgnored(d, ignore_params) ==
    SelectSeq(d, LAMBDA e : ~InIgnore(e.k, ignore_params))

\* kwargs_clone, with the attempt id stored under its reserved name
kwargs_clone_of(kwargs, ignore_params, n_attempt) ==
    Append(PopIgnored(kwargs, ignore_params),
           Entry(StrV("_n_attempt_cache_id"), IntV(ToString(n_attempt))))

\* kwargs and its clone taken for one dict
kwargs_aliased(kwargs, ignore_params, n_attempt) ==
    kwargs_clone_of(kwargs, ignore_params, n_attempt)

\* kwargs at line 97: lines 69-74 pop from and add to its copy
kwargs_at_call(kwargs, ignore_params, n_attempt) == kwargs

\* args at line 97: a tuple, and lines 66-71 build and change another dict
args_at_call(func, ignore_params, args) == args

arg_hash(func, ignore_params, args, kwargs, n_attempt) ==
    recursive_hash(DictV(PopIgnored(args_dict_of(func, args), ignore_params)),
                   0, ignore_params)
    \o recursive_hash(DictV(kwargs_clone_of(kwargs, ignore_params, n_attempt)),
                      0, ignore_params)
    \o func_source_code_hash(func)

\* os.path.join(cache_dir, f"{func.__module__}_{func.__name__}_{arg_hash}.pickle")
cache_file(func, ignore_params, args, kwargs, n_attempt) ==
    Text(".cache/file_cache/") \o Text(func.module) \o Text("_") \o Text(func.name)
    \o Text("_") \o arg_hash(func, ignore_params, args, kwargs, n_attempt)
    \o Text(".pickle")

(***************************************************************************)
(* Serialization.  A result is a sequence of payload parts; pickle.dump    *)
(* writes it as one chunk per part, each chunk carrying its position and   *)
(* the length of the stream, and pickle.load rebuilds the parts from a     *)
(* well-formed stream at the start of the file, ignoring what follows it.  *)
(***************************************************************************)
Chunk(part, i, n) == [p |-> part, i |-> i, n |-> n]

Hole == Chunk(0, 0, 0)

pickle_dumps(result) ==
    [i \in 1..Len(result) |-> Chunk(result[i], i, Len(result))]

\* whether the bytes of a file start with a complete pickle stream
Loadable(data) ==
    /\ Len(data) > 0
    /\ data[1].i = 1
    /\ data[1].n <= Len(data)
    /\ \A j \in 1..data[1].n : data[j].i = j /\ data[j].n = data[1].n

pickle_load(data) == [j \in 1..data[1].n |-> data[j].p]

\* file.write(chunk) at position pos of a file opened with "wb"
WriteAt(data, pos, chunk) ==
    IF pos <= Len(data) THEN [data EXCEPT ![pos] = chunk]
    ELSE data \o [j \in 1..(pos - Len(data) - 1) |-> Hole] \o <<chunk>>

(***************************************************************************)
(* Bounds and the inputs drawn by the callers.                             *)
(***************************************************************************)
MaxChunks == 2

MaxAttempt == 1

\* the two callers, numbered in the order in which they enter the wrapper
Calls == {1, 2}

\* def f(x, ts): ... in module m, with source text src
FuncOf(src) == [module |-> "m", name |-> "f",
                layers |-> <<Layer(<<"x", "ts">>, src)>>]

\* file_cache(ignore_params)(f), f with source text src
Wrapper(src, ignore_params) == [src |-> src, ignore_params |-> ignore_params]

Func(w) == FuncOf(w.src)

Wrappers ==
    {Wrapper(src, ig) :
        src \in {"v1", "v2"},
        ig \in {{"ts"}, {"ts", "_n_attempt_cache_id"}}}

\* the value passed for x: a mapping {"a": 4, "ts": t}
XVal(t) == DictV(<<Entry(StrV("a"), IntV("4")), Entry(StrV("ts"), IntV(t))>>)

\* the call f(x, t) or f(x, ts=t), with _n_attempt_cache_id = n
Input(t, byName, n) == [t |-> t, byName |-> byName, n |-> n]

\* *args of the call
args_of(inp) ==
    IF inp.byName THEN <<XVal(inp.t)>> ELSE <<XVal(inp.t), IntV(inp.t)>>

\* **kwargs of the call
kwargs_of(inp) ==
    IF inp.byName THEN <<Entry(StrV("ts"), IntV(inp.t))>> ELSE <<>>

Inputs ==
    {Input(t, byName, n) :
        t \in {"1", "2"}, byName \in BOOLEAN, n \in 0..MaxAttempt}

\* the first caller's inputs: the later callers vary theirs against these
FirstInputs == {Input("1", byName, 0) : byName \in BOOLEAN}

FirstWrappers == {w \in Wrappers : w.src = "v1"}

\* lines 63-84 for a call through wrapper w with inputs inp
CacheFileOf(w, inp) ==
    cache_file(Func(w), w.ignore_params, args_of(inp), kwargs_of(inp), inp.n)

CacheFiles == [w \in Wrappers, inp \in Inputs |-> CacheFileOf(w, inp)]

(***************************************************************************)
(* State.                                                                  *)
(*   dir_exists  whether .cache/file_cache exists                          *)
(*   files       the files of the cache directory: name -> bytes (data),   *)
(*               the call that created the file (first) and the call that  *)
(*               opened or wrote it last (last)                            *)
(*   call        the calls of wrapped callables, one record per call       *)
(*   rh          one evaluation of recursive_hash, step by step            *)
(*   fp          a pair of values and their fingerprints                   *)
(*   kd          a pair of calls and the cache keys derived for them       *)
(* The last three belong to the specifications of the fingerprint and of   *)
(* the key derivation, below; the calls leave them alone.                  *)
(***************************************************************************)
VARIABLES dir_exists, files, call, rh, fp, kd

vars == <<dir_exists, files, call, rh, fp, kd>>

purevars == <<rh, fp, kd>>

NoCall ==
    [pc |-> "idle", w |-> Wrapper("v1", {"ts"}), inp |-> Input("1", FALSE, 0),
     saw |-> FALSE, load_failed |-> FALSE, invoked |-> 0,
     result |-> <<>>, picklable |-> TRUE, opened |-> FALSE, off |-> 0,
     store_failed |-> FALSE, ret |-> <<>>, exc |-> "", after |-> {},
     passed |-> <<>>, stores |-> 0]

Init ==
    /\ dir_exists = FALSE
    /\ files = <<>>
    /\ call = [c \in Calls |-> NoCall]
    /\ rh = <<>>
    /\ fp = <<>>
    /\ kd = <<>>

Finished(c) == call[c].pc \in {"done", "raised"}

\* cache_file of call c
File(c) == CacheFiles[call[c].w, call[c].inp]

\* lines 59-84: entry, os.makedirs(cache_dir, exist_ok=True), key derivation
Enter(c, w, inp) ==
    /\ call[c].pc = "idle"
    /\ IF c = 1 THEN w \in FirstWrappers /\ inp \in FirstInputs
       ELSE /\ call[c - 1].pc # "idle"
            /\ w.ignore_params = call[1].w.ignore_params
    /\ \/ /\ dir_exists' = TRUE
          /\ call' = [call EXCEPT ![c] =
                 [@ EXCEPT !.pc = "exists", !.w = w, !.inp = inp,
                           !.after = {o \in DOMAIN call : Finished(o)}]]
       \/ /\ ~dir_exists
          /\ dir_exists' = FALSE
          /\ call' = [call EXCEPT ![c] =
                 [@ EXCEPT !.pc = "raised", !.w = w, !.inp = inp,
                           !.exc = "OSError",
                           !.after = {o \in DOMAIN call : Finished(o)}]]
    /\ UNCHANGED files
    /\ UNCHANGED purevars

\* an existence test that never finds the file
Exists_blind(c) ==
    /\ call[c].pc = "exists"
    /\ call' = [call EXCEPT ![c] = [@ EXCEPT !.pc = "call"]]
    /\ UNCHANGED <<dir_exists, files>>
    /\ UNCHANGED purevars

\* line 88: os.path.exists(cache_file)
Exists(c) ==
    /\ call[c].pc = "exists"
    /\ call' = [call EXCEPT ![c] =
           IF File(c) \in DOMAIN files
           THEN [@ EXCEPT !.pc = "load", !.saw = TRUE]
           ELSE [@ EXCEPT !.pc = "call"]]
    /\ UNCHANGED <<dir_exists, files>>
    /\ UNCHANGED purevars

\* a load whose failure is not caught
Load_raising(c) ==
    /\ call[c].pc = "load"
    /\ \/ /\ Loadable(files[File(c)].data)
          /\ call' = [call EXCEPT ![c] =
                 [@ EXCEPT !.pc = "done",
                           !.ret = pickle_load(files[File(c)].data)]]
       \/ call' = [call EXCEPT ![c] =
                 [@ EXCEPT !.pc = "raised", !.load_failed = TRUE,
                           !.exc = "UnpicklingError"]]
    /\ UNCHANGED <<dir_exists, files>>
    /\ UNCHANGED purevars

\* a load that writes the entry back on a hit
Load_refreshing(c) ==
    /\ call[c].pc = "load"
    /\ \/ /\ Loadable(files[File(c)].data)
          /\ call' = [call EXCEPT ![c] =
                 [@ EXCEPT !.pc = "done",
                           !.ret = pickle_load(files[File(c)].data)]]
          /\ files' = [files EXCEPT ![File(c)] =
                 [@ EXCEPT !.data = pickle_dumps(pickle_load(@)), !.last = c]]
       \/ /\ call' = [call EXCEPT ![c] =
                 [@ EXCEPT !.pc = "call", !.load_failed = TRUE]]
          /\ UNCHANGED files
    /\ UNCHANGED dir_exists
    /\ UNCHANGED purevars

\* lines 91-94: open(cache_file, "rb"), pickle.load(f); any Exception is logged
Load(c) ==
    /\ call[c].pc = "load"
    /\ \/ /\ Loadable(files[File(c)].data)
          /\ call' = [call EXCEPT ![c] =
                 [@ EXCEPT !.pc = "done",
                           !.ret = pickle_load(files[File(c)].data)]]
       \/ /\ ~Loadable(files[File(c)].data)
          /\ call' = [call EXCEPT ![c] =
                 [@ EXCEPT !.pc = "call", !.load_failed = TRUE]]
       \/ \* the file cannot be opened or read
          /\ call' = [call EXCEPT ![c] =
                 [@ EXCEPT !.pc = "call", !.load_failed = TRUE]]
    /\ UNCHANGED <<dir_exists, files>>
    /\ UNCHANGED purevars

\* the result of the invocation made by call c, n parts long
ResultOf(c, n) == [i \in 1..n |-> c]

\* what func(*args, **kwargs) receives from call c
Passed(c) ==
    [args   |-> args_at_call(Func(call[c].w), call[c].w.ignore_params,
                             args_of(call[c].inp)),
     kwargs |-> kwargs_at_call(kwargs_of(call[c].inp), call[c].w.ignore_params,
                               call[c].inp.n)]

\* a call of func made with the cache file already opened for writing
CallFunc_in_open_file(c) ==
    /\ call[c].pc = "call"
    /\ files' = [f \in DOMAIN files \cup {File(c)} |->
                   IF f = File(c)
                   THEN [data |-> <<>>, last |-> c,
                         first |-> IF f \in DOMAIN files
                                   THEN files[f].first ELSE c]
                   ELSE files[f]]
    /\ \/ \E n \in 1..MaxChunks :
            call' = [call EXCEPT ![c] =
                [@ EXCEPT !.pc = "dump", !.invoked = @ + 1,
                          !.result = ResultOf(c, n)]]
       \/ call' = [call EXCEPT ![c] =
                [@ EXCEPT !.pc = "raised", !.invoked = @ + 1, !.exc = "func"]]
    /\ UNCHANGED dir_exists
    /\ UNCHANGED purevars

\* line 97: result = func(*args, **kwargs); its exception is not caught
CallFunc(c) ==
    /\ call[c].pc = "call"
    /\ \/ \E n \in 1..MaxChunks :
            call' = [call EXCEPT ![c] =
                [@ EXCEPT !.pc = "open", !.invoked = @ + 1, !.passed = Passed(c),
                          !.result = ResultOf(c, n)]]
       \/ \* a result pickle cannot serialize
          call' = [call EXCEPT ![c] =
                [@ EXCEPT !.pc = "open", !.invoked = @ + 1, !.passed = Passed(c),
                          !.result = ResultOf(c, 1), !.picklable = FALSE]]
       \/ call' = [call EXCEPT ![c] =
                [@ EXCEPT !.pc = "raised", !.invoked = @ + 1, !.passed = Passed(c),
                          !.exc = "func"]]
    /\ UNCHANGED <<dir_exists, files>>
    /\ UNCHANGED purevars

\* an open that is tried again when it fails
OpenWrite_retrying(c) ==
    /\ call[c].pc = "open"
    /\ \/ /\ files' = [f \in DOMAIN files \cup {File(c)} |->
                         IF f = File(c)
                         THEN [data |-> <<>>, last |-> c,
                               first |-> IF f \in DOMAIN files
                                         THEN files[f].first ELSE c]
                         ELSE files[f]]
          /\ call' = [call EXCEPT ![c] =
                 [@ EXCEPT !.pc = "dump", !.opened = TRUE, !.off = 0,
                           !.stores = @ + 1]]
       \/ /\ call' = [call EXCEPT ![c] =
                 [@ EXCEPT !.store_failed = TRUE, !.stores = @ + 1]]
          /\ UNCHANGED files
    /\ UNCHANGED dir_exists
    /\ UNCHANGED purevars

\* line 99: open(cache_file, "wb") creates or truncates the file
OpenWrite(c) ==
    /\ call[c].pc = "open"
    /\ \/ /\ files' = [f \in DOMAIN files \cup {File(c)} |->
                         IF f = File(c)
                         THEN [data |-> <<>>, last |-> c,
                               first |-> IF f \in DOMAIN files
                                         THEN files[f].first ELSE c]
                         ELSE files[f]]
          /\ call' = [call EXCEPT ![c] =
                 [@ EXCEPT !.pc = "dump", !.opened = TRUE, !.off = 0,
                           !.stores = @ + 1]]
       \/ \* open fails: logged, line 103 returns the result
          /\ call' = [call EXCEPT ![c] =
                 [@ EXCEPT !.pc = "done", !.store_failed = TRUE,
                           !.stores = @ + 1, !.ret = call[c].result]]
          /\ UNCHANGED files
    /\ UNCHANGED dir_exists
    /\ UNCHANGED purevars

\* a dump whose failure is not caught
Dump_raising(c) ==
    /\ call[c].pc = "dump"
    /\ \/ /\ call[c].picklable
          /\ LET pos  == call[c].off + 1
                 data == pickle_dumps(call[c].result)
             IN  /\ files' = [files EXCEPT ![File(c)] =
                        [@ EXCEPT !.data = WriteAt(@, pos, data[pos]),
                                  !.last = c]]
                 /\ call' = [call EXCEPT ![c] =
                        IF pos = Len(data)
                        THEN [@ EXCEPT !.pc = "done", !.off = pos,
                                       !.ret = call[c].result]
                        ELSE [@ EXCEPT !.off = pos]]
       \/ /\ call' = [call EXCEPT ![c] =
                 [@ EXCEPT !.pc = "raised", !.store_failed = TRUE,
                           !.exc = "PicklingError"]]
          /\ UNCHANGED files
    /\ UNCHANGED dir_exists
    /\ UNCHANGED purevars

\* lines 100-103: pickle.dump(result, f) one chunk at a time, then return result
Dump(c) ==
    /\ call[c].pc = "dump"
    /\ \/ /\ call[c].picklable
          /\ LET pos  == call[c].off + 1
                 data == pickle_dumps(call[c].result)
             IN  /\ files' = [files EXCEPT ![File(c)] =
                        [@ EXCEPT !.data = WriteAt(@, pos, data[pos]),
                                  !.last = c]]
                 /\ call' = [call EXCEPT ![c] =
                        IF pos = Len(data)
                        THEN [@ EXCEPT !.pc = "done", !.off = pos,
                                       !.ret = call[c].result]
                        ELSE [@ EXCEPT !.off = pos]]
       \/ \* pickling or writing fails: logged, line 103 returns the result
          /\ call' = [call EXCEPT ![c] =
                 [@ EXCEPT !.pc = "done", !.store_failed = TRUE,
                           !.ret = call[c].result]]
          /\ UNCHANGED files
    /\ UNCHANGED dir_exists
    /\ UNCHANGED purevars

Next ==
    \/ \E c \in Calls, w \in Wrappers, inp \in Inputs : Enter(c, w, inp)
    \/ \E c \in Calls : Exists(c)
    \/ \E c \in Calls : Load(c)
    \/ \E c \in Calls : CallFunc(c)
    \/ \E c \in Calls : OpenWrite(c)
    \/ \E c \in Calls : Dump(c)

Spec == Init /\ [][Next]_vars

(***************************************************************************)
(* recursive_hash step by step.  Python values are references, so a list,  *)
(* a dict or an object can hold itself.  A heap is a sequence of nodes of  *)
(* the shape of a value whose items hold the positions of the key and of   *)
(* the value of each entry (the key of a list item is 0); node 1 is the    *)
(* argument.  An activation of recursive_hash is a frame: the node it was  *)
(* given (asdict: the __dict__ of that node), its depth, the number idx of *)
(* entries it is done with, whether the key of the next entry is hashed,   *)
(* and the digests joined so far.                                          *)
(***************************************************************************)
Ref(key, val) == [k |-> key, v |-> val]

Node(kind, cls, refs) == [kind |-> kind, text |-> <<>>, cls |-> cls, items |-> refs]

\* x = []; x.append(x), with n references to itself
SelfList(n) == <<Node("list", "", [i \in 1..n |-> Ref(0, 1)])>>

\* d = {}; d["k"] = d; d["ts"] = d
SelfDict ==
    <<Node("dict", "", <<Ref(2, 1), Ref(3, 1)>>), StrV("k"), StrV("ts")>>

\* o = C(); o.me = o; o.n = 4
SelfObj ==
    <<Node("obj", "C", <<Ref(2, 1), Ref(3, 4)>>), StrV("me"), StrV("n"), IntV("4")>>

\* o = C(); o.kids = [o, {"up": o}]
ObjListDict ==
    <<Node("obj", "C", <<Ref(2, 3)>>), StrV("kids"),
      Node("list", "", <<Ref(0, 1), Ref(0, 4)>>),
      Node("dict", "", <<Ref(5, 1)>>), StrV("up")>>

\* [[...[leaf]...]]: n lists around a leaf, no cycle
Chain(n, leaf) ==
    [i \in 1..(n + 1) |->
        IF i <= n THEN Node("list", "", <<Ref(0, i + 1)>>) ELSE leaf]

\* {"a": 4, "ts": [1, None]}, no cycle
PlainDict ==
    <<Node("dict", "", <<Ref(2, 3), Ref(4, 5)>>), StrV("a"), IntV("4"),
      StrV("ts"), Node("list", "", <<Ref(0, 6), Ref(0, 7)>>), IntV("1"), NoneV>>

CyclicHeaps == {SelfList(1), SelfList(2), SelfDict, SelfObj, ObjListDict}

ChainDepth == 8

TreeHeaps == {Chain(n, IntV("1")) : n \in 0..ChainDepth} \cup {PlainDict}

HashIgnores == {{}, {"ts"}, {"C"}}

Frame(node, asdict, depth) ==
    [node |-> node, asdict |-> asdict, depth |-> depth,
     idx |-> 0, key_done |-> FALSE, acc |-> <<>>]

InitHash ==
    /\ dir_exists = FALSE
    /\ files = <<>>
    /\ call = [c \in Calls |-> NoCall]
    /\ fp = <<>>
    /\ kd = <<>>
    /\ \E heap \in CyclicHeaps \cup TreeHeaps, ig \in HashIgnores :
          rh = [heap |-> heap, ignore_params |-> ig,
                stack |-> <<Frame(1, FALSE, 0)>>, out |-> <<>>]

Top == rh.stack[Len(rh.stack)]

\* the type test that the frame's value passes, lines 20-41
KindOf(fr) == IF fr.asdict THEN "dict" ELSE rh.heap[fr.node].kind

ItemsOf(fr) == rh.heap[fr.node].items

\* the frame has a recursive call left to make
Pending(fr) ==
    /\ fr.depth <= MAX_DEPTH
    /\ \/ KindOf(fr) \in {"list", "dict"} /\ fr.idx < Len(ItemsOf(fr))
       \/ /\ KindOf(fr) = "obj"
          /\ rh.heap[fr.node].cls \notin rh.ignore_params
          /\ fr.idx = 0

\* the value the frame returns once it has no call left to make
Digest(fr) ==
    IF fr.depth > MAX_DEPTH THEN md5(Text("max_depth_reached"))
    ELSE IF KindOf(fr) \in ScalarKinds THEN md5(rh.heap[fr.node].text)
    ELSE IF KindOf(fr) \in {"list", "dict"} THEN md5(fr.acc)
    ELSE IF KindOf(fr) = "obj" /\ rh.heap[fr.node].cls \notin rh.ignore_params
    THEN fr.acc
    ELSE md5(Text("unknown"))

\* the next entry of a dict frame has a key that ignore_params holds
NextIgnored(fr) ==
    /\ KindOf(fr) = "dict"
    /\ ~fr.key_done
    /\ InIgnore(rh.heap[ItemsOf(fr)[fr.idx + 1].k], rh.ignore_params)

\* a recursive call made whatever the depth
Descend_unbounded ==
    /\ rh.stack # <<>>
    /\ \/ KindOf(Top) \in {"list", "dict"} /\ Top.idx < Len(ItemsOf(Top))
       \/ KindOf(Top) = "obj" /\ Top.idx = 0
    /\ IF KindOf(Top) = "obj"
       THEN rh' = [rh EXCEPT !.stack = Append(@, Frame(Top.node, TRUE, Top.depth + 1))]
       ELSE LET e == ItemsOf(Top)[Top.idx + 1]
            IN  rh' = [rh EXCEPT !.stack =
                    Append(@, Frame(IF KindOf(Top) = "dict" /\ ~Top.key_done
                                    THEN e.k ELSE e.v,
                                    FALSE, Top.depth + 1))]
    /\ UNCHANGED <<dir_exists, files, call, fp, kd>>

\* lines 25, 32, 33, 40: the next recursive call, at depth + 1
Descend ==
    /\ rh.stack # <<>>
    /\ Pending(Top)
    /\ ~NextIgnored(Top)
    /\ IF KindOf(Top) = "obj"
       THEN rh' = [rh EXCEPT !.stack = Append(@, Frame(Top.node, TRUE, Top.depth + 1))]
       ELSE LET e == ItemsOf(Top)[Top.idx + 1]
            IN  rh' = [rh EXCEPT !.stack =
                    Append(@, Frame(IF KindOf(Top) = "dict" /\ ~Top.key_done
                                    THEN e.k ELSE e.v,
                                    FALSE, Top.depth + 1))]
    /\ UNCHANGED <<dir_exists, files, call, fp, kd>>

\* line 35: an entry whose key is in ignore_params is passed over
Skip ==
    /\ rh.stack # <<>>
    /\ Pending(Top)
    /\ NextIgnored(Top)
    /\ rh' = [rh EXCEPT !.stack[Len(rh.stack)].idx = @ + 1]
    /\ UNCHANGED <<dir_exists, files, call, fp, kd>>

\* the caller's frame once the call it made has returned digest d
Resume(fr, d) ==
    IF KindOf(fr) = "dict" /\ ~fr.key_done
    THEN [fr EXCEPT !.key_done = TRUE, !.acc = @ \o d]
    ELSE [fr EXCEPT !.key_done = FALSE, !.idx = @ + 1, !.acc = @ \o d]

\* lines 18, 21, 23, 29, 40, 42: the activation returns its digest
Return ==
    /\ rh.stack # <<>>
    /\ ~Pending(Top)
    /\ LET n == Len(rh.stack)
       IN  IF n = 1
           THEN rh' = [rh EXCEPT !.stack = <<>>, !.out = Digest(Top)]
           ELSE rh' = [rh EXCEPT !.stack =
                    Append(SubSeq(@, 1, n - 2), Resume(@[n - 1], Digest(Top)))]
    /\ UNCHANGED <<dir_exists, files, call, fp, kd>>

NextHash == Descend \/ Skip \/ Return

\* an evaluation of recursive_hash runs until it returns
SpecHash == InitHash /\ [][NextHash]_vars /\ WF_vars(NextHash)

\* the value that an acyclic heap holds at node n
RECURSIVE ValueAt(_, _)
ValueAt(heap, n) ==
    [heap[n] EXCEPT !.items =
        [i \in 1..Len(@) |->
            Entry(IF @[i].k = 0 THEN NoneV ELSE ValueAt(heap, @[i].k),
                  ValueAt(heap, @[i].v))]]

\* on a value without cycles the steps return what recursive_hash defines
StepwiseAgrees ==
    rh.stack = <<>> /\ rh.heap \in TreeHeaps
        => rh.out = recursive_hash(ValueAt(rh.heap, 1), 0, rh.ignore_params)

(***************************************************************************)
(* recursive_hash applied.  A pair of values is drawn, each with the depth *)
(* at which recursive_hash is called on it, and both are fingerprinted.    *)
(***************************************************************************)
\* a value one level inside a list or a dict
Wrap(kind, v) ==
    IF kind = "list" THEN ListV(<<v>>) ELSE DictV(<<Entry(StrV("k"), v)>>)

\* leaf inside n nested collections of one kind
RECURSIVE Nest(_, _, _)
Nest(kind, n, leaf) == IF n = 0 THEN leaf ELSE Wrap(kind, Nest(kind, n - 1, leaf))

Leaves == {IntV("1"), IntV("2"), StrV("a"), ListV(<<IntV("1")>>), NoneV}

\* two structures that are the same but for one leaf
NestPairs ==
    {<<Nest(kind, n, x), Nest(kind, n, y)>> :
        kind \in {"list", "dict"}, n \in 0..ChainDepth,
        x \in {IntV("1"), ListV(<<IntV("1")>>)}, y \in Leaves}

\* the fields of an object
FieldSets ==
    {<<>>,
     <<Entry(StrV("a"), IntV("1"))>>,
     <<Entry(StrV("a"), IntV("1")), Entry(StrV("ts"), IntV("2"))>>,
     <<Entry(StrV("a"), ListV(<<IntV("1"), IntV("2")>>))>>,
     <<Entry(StrV("a"), ObjV("D", <<Entry(StrV("b"), IntV("1"))>>))>>}

\* an object and a dict of its field names and values
ObjPairs == {<<ObjV("C", es), DictV(es)>> : es \in FieldSets}

InitFp ==
    /\ dir_exists = FALSE
    /\ files = <<>>
    /\ call = [c \in Calls |-> NoCall]
    /\ rh = <<>>
    /\ kd = <<>>
    /\ \E pair \in NestPairs \cup ObjPairs, ig \in HashIgnores,
          dv \in 0..(MAX_DEPTH + 1), up \in 0..1 :
          fp = [v |-> pair[1], dv |-> dv, w |-> pair[2], dw |-> dv + up,
                ignore_params |-> ig, hashed |-> FALSE, hv |-> <<>>, hw |-> <<>>]

\* recursive_hash(v, dv, ignore_params) and recursive_hash(w, dw, ignore_params)
Fingerprint ==
    /\ ~fp.hashed
    /\ fp' = [fp EXCEPT !.hashed = TRUE,
                        !.hv = recursive_hash(fp.v, fp.dv, fp.ignore_params),
                        !.hw = recursive_hash(fp.w, fp.dw, fp.ignore_params)]
    /\ UNCHANGED <<dir_exists, files, call, rh, kd>>

NextFp == Fingerprint

SpecFp == InitFp /\ [][NextFp]_vars

(***************************************************************************)
(* Key derivation applied.  A decorated function, its ignore_params and    *)
(* two calls of it are drawn; lines 63-84 derive the cache file of each.   *)
(* A call is its positional arguments, its named arguments in the order    *)
(* in which the caller wrote them, and its _n_attempt_cache_id.            *)
(***************************************************************************)
CallOf(args, kwargs, n) == [args |-> args, kwargs |-> kwargs, n |-> n]

\* def wrapper(*args, **kwargs) of a decorator that applies functools.wraps
WrapsLayer == Layer(<<>>, "wraps")

\* def f(x, y) under a number of functools.wraps decorators
Decorated(layers) ==
    [module |-> "m", name |-> "f",
     layers |-> [i \in 1..(layers + 1) |->
                    IF i <= layers THEN WrapsLayer ELSE Layer(<<"x", "y">>, "v1")]]

\* def g(x, *rest)
WithVarArgs ==
    [module |-> "m", name |-> "g", layers |-> <<Layer(<<"x">>, "v1")>>]

MaxLayers == 2

KeyFuncs == {Decorated(k) : k \in 0..MaxLayers} \cup {WithVarArgs}

Named(name, t) == Entry(StrV(name), IntV(t))

\* the calls of f(x, y) and of g(x, *rest) that Python accepts
KeyCalls(func) ==
    IF func = WithVarArgs
    THEN {CallOf(<<IntV("1")>>, <<>>, 0),
          CallOf(<<IntV("1"), IntV("2")>>, <<>>, 0),
          CallOf(<<IntV("1"), IntV("3")>>, <<>>, 0),
          CallOf(<<IntV("1"), IntV("2"), IntV("3")>>, <<>>, 0),
          CallOf(<<IntV("1"), IntV("3"), IntV("3")>>, <<>>, 0),
          CallOf(<<>>, <<Named("x", "1")>>, 0)}
    ELSE {CallOf(<<IntV("1"), IntV("2")>>, <<>>, 0),
          CallOf(<<IntV("1"), IntV("3")>>, <<>>, 0),
          CallOf(<<IntV("2"), IntV("2")>>, <<>>, 0),
          CallOf(<<IntV("1")>>, <<Named("y", "2")>>, 0),
          CallOf(<<>>, <<Named("x", "1"), Named("y", "2")>>, 0),
          CallOf(<<>>, <<Named("y", "2"), Named("x", "1")>>, 0),
          CallOf(<<>>, <<Named("y", "3"), Named("x", "1")>>, 0)}

KeyIgnores == {{}, {"y"}}

Underived == [done |-> FALSE, args_dict |-> <<>>, kwargs_clone |-> <<>>, file |-> <<>>]

InitKey ==
    /\ dir_exists = FALSE
    /\ files = <<>>
    /\ call = [c \in Calls |-> NoCall]
    /\ rh = <<>>
    /\ fp = <<>>
    /\ \E func \in KeyFuncs, ig \in KeyIgnores :
          \E a, b \in KeyCalls(func) :
              kd = [func |-> func, ignore_params |-> ig,
                    calls |-> [x \in {"a", "b"} |-> IF x = "a" THEN a ELSE b],
                    key |-> [x \in {"a", "b"} |-> Underived]]

\* lines 63-84 for call x
DeriveKey(x) ==
    /\ ~kd.key[x].done
    /\ LET c == kd.calls[x]
       IN  kd' = [kd EXCEPT !.key[x] =
               [done         |-> TRUE,
                args_dict    |-> PopIgnored(args_dict_of(kd.func, c.args),
                                            kd.ignore_params),
                kwargs_clone |-> kwargs_clone_of(c.kwargs, kd.ignore_params, c.n),
                file         |-> cache_file(kd.func, kd.ignore_params,
                                            c.args, c.kwargs, c.n)]]
    /\ UNCHANGED <<dir_exists, files, call, rh, fp>>

NextKey == \E x \in {"a", "b"} : DeriveKey(x)

SpecKey == InitKey /\ [][NextKey]_vars

(***************************************************************************)
(* Three concurrent calls of one wrapped function with the same arguments, *)
(* hence the same cache file: two can write it while the third reads it.   *)
(***************************************************************************)
RaceCalls == {1, 2, 3}

RaceWrapper == Wrapper("v1", {"ts"})

RaceInput == Input("1", FALSE, 0)

InitRace ==
    /\ dir_exists = FALSE
    /\ files = <<>>
    /\ call = [c \in RaceCalls |-> NoCall]
    /\ rh = <<>>
    /\ fp = <<>>
    /\ kd = <<>>

NextRace ==
    \/ \E c \in RaceCalls : Enter(c, RaceWrapper, RaceInput)
    \/ \E c \in RaceCalls : Exists(c)
    \/ \E c \in RaceCalls : Load(c)
    \/ \E c \in RaceCalls : CallFunc(c)
    \/ \E c \in RaceCalls : OpenWrite(c)
    \/ \E c \in RaceCalls : Dump(c)

SpecRace == InitRace /\ [][NextRace]_vars

(***************************************************************************)
(* Vocabulary of the properties.                                           *)
(***************************************************************************)
\* call c has derived its cache file
Entered(c) == call[c].pc # "idle" /\ call[c].exc # "OSError"

Done(c) == call[c].pc = "done"

\* call b entered the wrapper after call a had finished
Sequential(a, b) == a \in call[b].after

\* every read and write of the store made by call c succeeded
StorageOk(c) == ~call[c].load_failed /\ ~call[c].store_failed

\* a value without the fields that ignore_params names
RECURSIVE Strip(_, _)
Strip(v, ig) ==
    IF v.kind = "list" THEN
        [v EXCEPT !.items = [i \in 1..Len(v.items) |->
                                Entry(NoneV, Strip(v.items[i].v, ig))]]
    ELSE IF v.kind = "obj" /\ v.cls \in ig THEN [v EXCEPT !.items = <<>>]
    ELSE IF v.kind \in {"dict", "obj"} THEN
        LET kept == SelectSeq(v.items, LAMBDA e : ~InIgnore(e.k, ig))
        IN  [v EXCEPT !.items = [i \in 1..Len(kept) |->
                                    Entry(Strip(kept[i].k, ig), Strip(kept[i].v, ig))]]
    ELSE v

\* calls a and b are made through the same wrapper and differ at most in the
\* values of excluded parameters and of excluded fields of their arguments
SameButExcluded(a, b) ==
    LET ig    == call[a].w.ignore_params
        names == WrappedOrSelf(Func(call[a].w)).params
        xa    == args_of(call[a].inp)
        ya    == args_of(call[b].inp)
        xk    == kwargs_of(call[a].inp)
        yk    == kwargs_of(call[b].inp)
    IN  /\ call[a].w = call[b].w
        /\ call[a].inp.n = call[b].inp.n
        /\ Len(xa) = Len(ya)
        /\ \A i \in 1..Len(xa) :
              \/ i <= Len(names) /\ names[i] \in ig
              \/ Strip(xa[i], ig) = Strip(ya[i], ig)
        /\ Len(xk) = Len(yk)
        /\ \A j \in 1..Len(xk) :
              /\ xk[j].k = yk[j].k
              /\ \/ InIgnore(xk[j].k, ig)
                 \/ Strip(xk[j].v, ig) = Strip(yk[j].v, ig)

(***************************************************************************)
(* C1.  Two sequential calls through the same wrapper with the same        *)
(* inputs, all of whose store reads and writes succeed, invoke the         *)
(* wrapped function once in total, and the second returns a value equal    *)
(* to the one the first returned.                                          *)
(***************************************************************************)
C1_TwoCallsOneComputation ==
    \A a, b \in Calls :
        ( /\ Sequential(a, b)
          /\ call[a].w = call[b].w /\ call[a].inp = call[b].inp
          /\ Done(a) /\ Done(b) /\ StorageOk(a) /\ StorageOk(b) )
        => /\ call[a].invoked + call[b].invoked = 1
           /\ call[b].ret = call[a].ret

C1_Witness ==
    \E a, b \in Calls :
        /\ Sequential(a, b)
        /\ call[a].w = call[b].w /\ call[a].inp = call[b].inp
        /\ Done(a) /\ Done(b) /\ StorageOk(a) /\ StorageOk(b)
        /\ call[a].invoked = 1 /\ Len(call[a].ret) = MaxChunks
        /\ call[b].saw

(***************************************************************************)
(* C2.  A call that raises raises the failure of the wrapped function:     *)
(* no step of the caching layer makes the call raise.                      *)
(***************************************************************************)
C2_OnlyComputationRaises ==
    \A c \in Calls : call[c].pc = "raised" => call[c].exc = "func"

(***************************************************************************)
(* C3.  A call that finds an entry it cannot deserialize does not raise    *)
(* for it: it goes on to invoke the wrapped function, and when that        *)
(* returns, the call returns the result just computed.                     *)
(***************************************************************************)
C3_UnreadableEntryIsMiss ==
    \A c \in Calls :
        (call[c].saw /\ call[c].load_failed)
        => /\ call[c].pc \in {"call", "open", "dump", "done", "raised"}
           /\ call[c].pc = "raised" => call[c].exc = "func"
           /\ call[c].pc # "call" => call[c].invoked = 1
           /\ Done(c) => /\ call[c].result = ResultOf(c, Len(call[c].result))
                         /\ call[c].ret = call[c].result

C3_Witness ==
    \E c \in Calls :
        /\ call[c].saw /\ call[c].load_failed /\ Done(c)
        /\ call[c].opened /\ ~call[c].store_failed
        /\ call[c].ret = ResultOf(c, MaxChunks)

(***************************************************************************)
(* C4.  A call whose store step fails returns the result the wrapped       *)
(* function just produced, and does not raise.                             *)
(***************************************************************************)
C4_FailedStoreStillReturns ==
    \A c \in Calls :
        call[c].store_failed
        => /\ Done(c) /\ call[c].exc = ""
           /\ call[c].invoked = 1
           /\ call[c].ret = ResultOf(c, Len(call[c].ret))

C4_Witness ==
    \E c \in Calls : call[c].store_failed /\ call[c].opened /\ Done(c)

(***************************************************************************)
(* C5.  A call in which the wrapped function raises ends with that         *)
(* failure and has written nothing: it opened no file for writing and no   *)
(* file of the store was created or last written by it.                    *)
(***************************************************************************)
C5_FailedComputationStoresNothing ==
    \A c \in Calls :
        (call[c].pc = "raised" /\ call[c].invoked > 0)
        => /\ call[c].exc = "func"
           /\ ~call[c].opened
           /\ \A f \in DOMAIN files : files[f].first # c /\ files[f].last # c

C5_Witness ==
    \E c \in Calls :
        /\ call[c].pc = "raised" /\ call[c].invoked = 1
        /\ File(c) \notin DOMAIN files

(***************************************************************************)
(* C6.  Two calls through the same wrapper with the same arguments and     *)
(* different values of _n_attempt_cache_id derive different cache files,   *)
(* whatever the exclusion set.                                             *)
(***************************************************************************)
C6_AttemptIdSeparatesKeys ==
    \A a, b \in Calls :
        ( /\ Entered(a) /\ Entered(b)
          /\ call[a].w = call[b].w
          /\ args_of(call[a].inp) = args_of(call[b].inp)
          /\ kwargs_of(call[a].inp) = kwargs_of(call[b].inp)
          /\ call[a].inp.n # call[b].inp.n )
        => File(a) # File(b)

(***************************************************************************)
(* C7.  Values that differ only in fields named in the exclusion set have  *)
(* equal fingerprints, and two calls that differ only in such fields and   *)
(* in the values of excluded parameters derive the same cache file; when   *)
(* they are sequential and their store reads and writes succeed, the       *)
(* second is served from the entry the first stored.                       *)
(***************************************************************************)
C7_ExcludedValuesShareEntry ==
    \A a, b \in Calls :
        (Entered(a) /\ Entered(b) /\ SameButExcluded(a, b))
        => LET ig == call[a].w.ignore_params
               x  == args_of(call[a].inp)
               y  == args_of(call[b].inp)
           IN  /\ \A i \in 1..Len(x) :
                     Strip(x[i], ig) = Strip(y[i], ig)
                     => recursive_hash(x[i], 1, ig) = recursive_hash(y[i], 1, ig)
               /\ File(a) = File(b)
               /\ ( /\ Sequential(a, b) /\ Done(a) /\ Done(b)
                    /\ StorageOk(a) /\ StorageOk(b) )
                  => /\ call[b].invoked = 0
                     /\ call[b].ret = call[a].ret

C7_Witness ==
    \E a, b \in Calls :
        /\ Entered(a) /\ Entered(b) /\ SameButExcluded(a, b)
        /\ args_of(call[a].inp)[1].kind = "dict"
        /\ args_of(call[a].inp)[1] # args_of(call[b].inp)[1]
        /\ kwargs_of(call[a].inp) # kwargs_of(call[b].inp)
        /\ Sequential(a, b) /\ Done(a) /\ Done(b)
        /\ StorageOk(a) /\ StorageOk(b)
        /\ call[a].invoked = 1 /\ call[b].saw

(***************************************************************************)
(* C8.  Two wrappers of functions that differ only in their source text    *)
(* derive different cache files for the same inputs: the call made after   *)
(* the change neither finds nor opens the file stored before it, and it    *)
(* invokes the changed function.                                           *)
(***************************************************************************)
OnlyBodyDiffers(f, g) ==
    /\ f.module = g.module /\ f.name = g.name
    /\ Len(f.layers) = Len(g.layers)
    /\ \A i \in 1..Len(f.layers) : f.layers[i].params = g.layers[i].params
    /\ getsource(f) # getsource(g)

C8_BodyChangeMisses ==
    \A a, b \in Calls :
        ( /\ Entered(a) /\ Entered(b)
          /\ OnlyBodyDiffers(Func(call[a].w), Func(call[b].w))
          /\ call[a].w.ignore_params = call[b].w.ignore_params
          /\ call[a].inp = call[b].inp )
        => /\ File(a) # File(b)
           /\ File(a) \in DOMAIN files
              => /\ files[File(a)].first # b
                 /\ files[File(a)].last # b
           /\ ~call[b].saw
           /\ Done(b) => /\ call[b].invoked = 1
                         /\ call[b].ret = ResultOf(b, Len(call[b].ret))

C8_Witness ==
    \E a, b \in Calls :
        /\ Entered(a) /\ Entered(b)
        /\ OnlyBodyDiffers(Func(call[a].w), Func(call[b].w))
        /\ call[a].w.ignore_params = call[b].w.ignore_params
        /\ call[a].inp = call[b].inp
        /\ Sequential(a, b) /\ Done(a) /\ Done(b)
        /\ StorageOk(a) /\ StorageOk(b)
        /\ File(a) \in DOMAIN files /\ File(b) \in DOMAIN files
        /\ pickle_load(files[File(a)].data) = call[a].ret

(***************************************************************************)
(* C9.  As claimed: once a file of the store exists it is never removed,   *)
(* and its content is only ever written by the call that created it.       *)
(***************************************************************************)
C9_EntryFixedAtCreation ==
    [][\A f \in DOMAIN files :
          /\ f \in DOMAIN files'
          /\ files'[f].data # files[f].data => files'[f].last = files[f].first]_vars

(***************************************************************************)
(* C9, amended.  No step removes a file of the store, and every step that  *)
(* creates a file or changes one is a step of a call for that file that    *)
(* has invoked the wrapped function: a call served from the store writes   *)
(* nothing, a call that computed creates or rewrites the entry.            *)
(***************************************************************************)
C9_OnlyComputingCallsWrite ==
    [][/\ DOMAIN files \subseteq DOMAIN files'
       /\ \A f \in DOMAIN files' :
             (f \notin DOMAIN files \/ files'[f] # files[f])
             => \E c \in Calls :
                   /\ File(c) = f
                   /\ call[c].invoked = 1
                   /\ call[c].pc \in {"open", "dump"}
                   /\ files'[f].last = c]_vars

C9_Witness ==
    \E f \in DOMAIN files :
        /\ files[f].first # files[f].last
        /\ Done(files[f].first) /\ Done(files[f].last)
        /\ Loadable(files[f].data)
        /\ pickle_load(files[f].data) = call[files[f].last].ret
        /\ call[files[f].first].ret # call[files[f].last].ret

(***************************************************************************)
(* C10.  Two calls for the same cache file that both found no entry, both  *)
(* invoked the wrapped function and both wrote the file without failure    *)
(* did not raise, returned each its own result, and leave a file that      *)
(* holds the result of the call that wrote last.                           *)
(***************************************************************************)
BothMissedAndWrote(a, b) ==
    /\ a # b
    /\ Entered(a) /\ Entered(b)
    /\ File(a) = File(b)
    /\ \A c \in {a, b} :
          /\ ~call[c].saw /\ call[c].invoked = 1
          /\ call[c].opened /\ ~call[c].store_failed /\ Done(c)

C10_LastWriterWins ==
    \A a, b \in Calls :
        BothMissedAndWrote(a, b)
        => /\ \A c \in {a, b} :
                 call[c].exc = "" /\ call[c].ret = ResultOf(c, Len(call[c].ret))
           /\ Loadable(files[File(a)].data)
           /\ pickle_load(files[File(a)].data)
                 = call[files[File(a)].last].ret

C10_Witness == \E a, b \in Calls : BothMissedAndWrote(a, b)

(***************************************************************************)
(* C11.  recursive_hash terminates on every input, values that hold        *)
(* themselves included: the activations on the stack are at depths 0, 1,   *)
(* 2, ... and none is deeper than MAX_DEPTH + 1 = 7; an activation at      *)
(* depth 7 makes no recursive call and looks at no entry of its value, it  *)
(* returns the digest of "max_depth_reached"; and the evaluation returns.  *)
(***************************************************************************)
DepthBounded ==
    \A i \in 1..Len(rh.stack) :
        LET fr == rh.stack[i]
        IN  /\ fr.depth = i - 1
            /\ fr.depth <= MAX_DEPTH + 1
            /\ fr.depth = MAX_DEPTH + 1
                 => /\ fr.idx = 0
                    /\ fr.acc = <<>>
                    /\ ~Pending(fr)
                    /\ Digest(fr) = md5(Text("max_depth_reached"))

Returned == rh.stack = <<>>

C11_TerminatesWithinDepth == []DepthBounded /\ <>Returned

\* a value that holds itself has been fingerprinted
C11_Witness ==
    /\ Returned
    /\ rh.heap \in CyclicHeaps
    /\ rh.out # <<>>

(***************************************************************************)
(* C12.  Two structures that differ only in a leaf that recursive_hash     *)
(* reaches at a depth greater than MAX_DEPTH = 6 (a leaf at depth 8 of a   *)
(* structure hashed from depth 0, a scalar at depth 7, ...) have the same  *)
(* fingerprint: whatever the leaf is, it contributes the digest of         *)
(* "max_depth_reached" and nothing else.                                   *)
(***************************************************************************)
\* fp.v and fp.w are n collections of one kind around the leaves x and y
NestedLeaves(kind, n, x, y) ==
    fp.v = Nest(kind, n, x) /\ fp.w = Nest(kind, n, y)

\* the digest of the digest of ... of s, k times
RECURSIVE Md5Times(_, _)
Md5Times(k, s) == IF k = 0 THEN s ELSE md5(Md5Times(k - 1, s))

C12_DeepLeafIgnored ==
    fp.hashed /\ fp.dv = fp.dw
        => \A kind \in {"list", "dict"}, n \in 0..ChainDepth, x, y \in Leaves :
              NestedLeaves(kind, n, x, y) /\ fp.dv + n > MAX_DEPTH
                  => /\ fp.hv = fp.hw
                     /\ kind = "list"
                          => fp.hv = Md5Times(MAX_DEPTH + 1 - fp.dv,
                                              md5(Text("max_depth_reached")))

\* two leaves, 1 and "a", at depth 8 of lists hashed from depth 0
C12_Witness ==
    /\ fp.hashed
    /\ fp.dv = 0 /\ fp.dw = 0
    /\ fp.v = Nest("list", 8, IntV("1"))
    /\ fp.w = Nest("list", 8, StrV("a"))
    /\ fp.hv = fp.hw

(***************************************************************************)
(* C13.  Once its key is derived a call takes one of two paths.  HIT: the  *)
(* entry is loaded and returned, func is not invoked and the call opens    *)
(* and writes no file.  MISS: func is invoked once, then one attempt is    *)
(* made to store its result, then that result is returned.  A call whose   *)
(* invocation of func returned is never stuck before its return: it has    *)
(* returned, or its next step (the open, the next write) can be taken, and *)
(* the writes left to make are bounded by the length of the pickle.        *)
(***************************************************************************)
Wrote(c) == \E f \in DOMAIN files : files[f].last = c

HitPath(c) ==
    /\ call[c].saw /\ ~call[c].load_failed
    /\ call[c].invoked = 0
    /\ call[c].stores = 0 /\ ~call[c].opened /\ ~Wrote(c)

MissPath(c) ==
    /\ call[c].invoked = 1
    /\ call[c].stores = 1
    /\ call[c].ret = call[c].result

C13_HitOrMiss ==
    \A c \in Calls :
        /\ Done(c) => (HitPath(c) /\ ~MissPath(c)) \/ (MissPath(c) /\ ~HitPath(c))
        /\ call[c].invoked <= 1
        /\ call[c].stores <= call[c].invoked
        /\ call[c].pc \in {"idle", "exists", "load", "call"}
             => call[c].invoked = 0 /\ ~Wrote(c)
        /\ call[c].pc = "open"
             => call[c].invoked = 1 /\ call[c].stores = 0 /\ ENABLED OpenWrite(c)
        /\ call[c].pc = "dump"
             => /\ call[c].invoked = 1 /\ call[c].stores = 1
                /\ call[c].off < Len(pickle_dumps(call[c].result))
                /\ ENABLED Dump(c)
        /\ call[c].invoked = 1 /\ call[c].pc = "raised" => call[c].exc = "func"

\* one call has returned by each path
C13_Witness ==
    \E a, b \in Calls :
        /\ Done(a) /\ MissPath(a) /\ call[a].opened
        /\ Done(b) /\ HitPath(b) /\ call[b].ret = call[a].result

(***************************************************************************)
(* C14.  What func receives on a miss is what the caller passed: the same  *)
(* positional arguments and the same named arguments, those that           *)
(* ignore_params names included, and no _n_attempt_cache_id.               *)
(***************************************************************************)
HasKey(d, name) == \E i \in 1..Len(d) : d[i].k = StrV(name)

BothDerived == kd.key["a"].done /\ kd.key["b"].done

\* the declared parameters of the original function
InnermostParams == kd.func.layers[Len(kd.func.layers)].params

\* the entries of d, their order put aside
EntrySet(d) == {d[i] : i \in 1..Len(d)}

\* d and e hold the same entries, in an order that may differ
SameEntries(d, e) == Len(d) = Len(e) /\ EntrySet(d) = EntrySet(e)

(***************************************************************************)
(* C15.  The fingerprint of a dict does not depend on the order of its     *)
(* entries: two calls that pass the same positional arguments and the same *)
(* named arguments, written in different orders, derive the same cache     *)
(* file, and the fingerprints of their kwargs are equal.                   *)
(***************************************************************************)
C15_NamedOrderIrrelevant ==
    LET a == kd.calls["a"]
        b == kd.calls["b"]
    IN  /\ BothDerived
        /\ a.args = b.args /\ a.n = b.n
        /\ SameEntries(a.kwargs, b.kwargs)
        => /\ recursive_hash(DictV(a.kwargs), 0, kd.ignore_params)
                = recursive_hash(DictV(b.kwargs), 0, kd.ignore_params)
           /\ kd.key["a"].file = kd.key["b"].file

(***************************************************************************)
(* C16.  Whatever the number of decorators between the function handed to  *)
(* file_cache and the original def, the positional arguments are named     *)
(* after the declared parameters of the original def, and two calls that   *)
(* differ in the value of a positional argument whose parameter is         *)
(* declared and not in ignore_params derive different cache files.         *)
(***************************************************************************)
\* dict(zip(names of the original def, args)) without the ignored names
NamedByOriginal(c) ==
    PopIgnored([i \in 1..Min(Len(InnermostParams), Len(c.args)) |->
                   Entry(StrV(InnermostParams[i]), c.args[i])],
               kd.ignore_params)

\* calls a and b differ in a positional argument, declared and not ignored
DeclaredPositionalDiffers(a, b) ==
    \E i \in 1..Min(Len(InnermostParams), Len(a.args)) :
        /\ Len(b.args) >= i
        /\ a.args[i] # b.args[i]
        /\ InnermostParams[i] \notin kd.ignore_params

C16_InnermostNamesUsed ==
    BothDerived
        => /\ \A x \in {"a", "b"} :
                 kd.key[x].args_dict = NamedByOriginal(kd.calls[x])
           /\ DeclaredPositionalDiffers(kd.calls["a"], kd.calls["b"])
                 => kd.key["a"].file # kd.key["b"].file

(***************************************************************************)
(* C17.  Two calls that bind the same values to the same parameters, one   *)
(* passing positionally an argument that the other passes by name, derive  *)
(* the same cache file.                                                    *)
(***************************************************************************)
\* the parameters that call c binds, each with its value
Bound(c) ==
    {Entry(StrV(InnermostParams[i]), c.args[i]) :
        i \in 1..Min(Len(InnermostParams), Len(c.args))}
    \cup EntrySet(c.kwargs)

\* the positional arguments of c beyond the declared parameters
Extras(c) == SubSeq(c.args, Len(InnermostParams) + 1, Len(c.args))

C17_PositionalOrNamedSameKey ==
    LET a == kd.calls["a"]
        b == kd.calls["b"]
    IN  /\ BothDerived
        /\ Bound(a) = Bound(b) /\ Extras(a) = Extras(b) /\ a.n = b.n
        /\ Len(a.args) > Len(b.args)
        => kd.key["a"].file = kd.key["b"].file

(***************************************************************************)
(* C18.  An object whose class name is not in ignore_params is hashed as   *)
(* its __dict__.  As claimed: the fingerprint of an object at depth d is   *)
(* the fingerprint, at the same depth d, of a dict of its field names and  *)
(* values.                                                                 *)
(***************************************************************************)
\* fp.v is an object that recursive_hash does not pass over, fp.w its fields
ObjectAndFields ==
    /\ fp.hashed
    /\ <<fp.v, fp.w>> \in ObjPairs
    /\ fp.v.cls \notin fp.ignore_params

C18_ObjectAsMappingSameDepth ==
    ObjectAndFields /\ fp.dw = fp.dv => fp.hv = fp.hw

\* C18, as the code has it: line 40 passes the __dict__ at depth d + 1, and
\* the dict branch passes the field names and values at depth d + 2, so the
\* fingerprint of an object at depth d is the fingerprint of the dict of its
\* fields at depth d + 1.
C18_ObjectAsMappingOneDeeper ==
    ObjectAndFields /\ fp.dw = fp.dv + 1 => fp.hv = fp.hw

\* an object at depth 5: its fields are at depth 7, those of the dict at 6
C18_Witness ==
    /\ ObjectAndFields
    /\ fp.v.items # <<>>
    /\ fp.dv = 5 /\ fp.dw = 6
    /\ fp.hv = fp.hw
    /\ fp.hv # recursive_hash(fp.w, fp.dv, fp.ignore_params)

(***************************************************************************)
(* C19.  Every positional argument whose parameter is not in ignore_params *)
(* reaches the cache key, those that a *args parameter collects included:  *)
(* two calls of one function with the same named arguments that differ in  *)
(* the value of such a positional argument derive different cache files.   *)
(***************************************************************************)
\* calls a and b differ in a positional argument that is not ignored
PositionalDiffers(a, b) ==
    /\ Len(a.args) = Len(b.args)
    /\ \E i \in 1..Len(a.args) :
          /\ a.args[i] # b.args[i]
          /\ i <= Len(InnermostParams) => InnermostParams[i] \notin kd.ignore_params

C19_PositionalsSeparateKeys ==
    LET a == kd.calls["a"]
        b == kd.calls["b"]
    IN  /\ BothDerived
        /\ a.kwargs = b.kwargs /\ a.n = b.n
        /\ PositionalDiffers(a, b)
        => kd.key["a"].file # kd.key["b"].file

(***************************************************************************)
(* C20.  Whatever the interleaving of concurrent calls, and with writes    *)
(* that are seen half done or fail midway, a call returns the result that  *)
(* func produced in that call or a result that func produced in a call     *)
(* with the same cache file; an entry that is only partly written is never *)
(* returned.                                                               *)
(***************************************************************************)
\* func returned value r to a call that has the cache file of call c
ComputedFor(c, r) ==
    \E o \in DOMAIN call :
        /\ Entered(o)
        /\ File(o) = File(c)
        /\ call[o].invoked = 1
        /\ call[o].exc # "func"
        /\ call[o].result = r

C20_ReturnsAComputedResult ==
    \A c \in DOMAIN call : Done(c) => ComputedFor(c, call[c].ret)

====
